---- MODULE Spec2Model ----
(***************************************************************************)
(* Model of app.py (PET + PCR + CO2 calculator): header resolution, the    *)
(* catalog and purchase loaders, the purchase merge, and the results and   *)
(* detail arithmetic.                                                      *)
(*                                                                         *)
(* Representation.  A text is a sequence of chunks; a chunk is either one  *)
(* whitespace character or a run of characters without leading or trailing *)
(* whitespace.  Numerals and part numbers are spelled one character per    *)
(* chunk.  A data frame is [columns, rows]: columns is the sequence of     *)
(* column labels, rows the sequence of rows, each row a sequence of cells  *)
(* aligned with columns.  The frames that are drawn as inputs have labels  *)
(* that are pairwise distinct after trimming.                              *)
(***************************************************************************)
EXTENDS Integers, Sequences, FiniteSets, TLC

VARIABLES
    pc,             \* stage of the script run the state is in
    strKeepsNA,     \* pandas build: astype(str) keeps a missing value missing
                    \* (pandas >= 3) or turns it into the text "nan" (pandas < 3)
    xlsx,           \* the catalog table as read by pd.read_excel
    norm,           \* outcome of normalize_cols
    db,             \* outcome of load_xlsx
    purchase_csv,   \* the uploaded ledger as read by pd.read_csv, or NoFile
    prev_csv,       \* history: the ledger the previous run was given
    purchases,      \* outcome of load_purchase_csv
    work,           \* the merged working frame
    csv_unmatched,  \* None or the sorted list of unmatched part numbers
    factors,        \* sidebar inputs pet_pcr_benefit, current_pcr_pct
    editor_out,     \* the frame returned by st.data_editor
    edited,         \* that frame after the coercions of the results block
    results,        \* the aggregate metrics of the results block
    detail          \* the detail table

vars == <<pc, strKeepsNA, xlsx, norm, db, purchase_csv, prev_csv, purchases, work,
          csv_unmatched, factors, editor_out, edited, results, detail>>

\* Bounds of the model.
MaxCols == 5
MaxRows == 2
MantBits == 8

----------------------------------------------------------------------------
(* Text *)

IsSpace(c) == c = " "

RECURSIVE lstrip(_)
lstrip(s) == IF s # <<>> /\ IsSpace(Head(s)) THEN lstrip(Tail(s)) ELSE s

RECURSIVE rstrip(_)
rstrip(s) ==
    IF s # <<>> /\ IsSpace(s[Len(s)]) THEN rstrip(SubSeq(s, 1, Len(s) - 1)) ELSE s

\* str.strip()
strip(s) == rstrip(lstrip(s))

\* Code points of the characters that part numbers are spelled with.
Code(c) ==
    CASE c = " " -> 32
      [] c = "-" -> 45
      [] c = "9" -> 57
      [] c = "A" -> 65
      [] c = "B" -> 66
      [] c = "Z" -> 90
      [] c = "a" -> 97
      [] c = "n" -> 110
      [] OTHER -> 120

\* Python's str < str: lexicographic by code point, a proper prefix first.
RECURSIVE StrLess(_, _)
StrLess(a, b) ==
    IF b = <<>> THEN FALSE
    ELSE IF a = <<>> THEN TRUE
    ELSE IF Code(Head(a)) # Code(Head(b)) THEN Code(Head(a)) < Code(Head(b))
    ELSE StrLess(Tail(a), Tail(b))

\* sorted(list(S)) for a set S of texts.
RECURSIVE sorted(_)
sorted(S) ==
    IF S = {} THEN <<>>
    ELSE LET m == CHOOSE x \in S : \A y \in S \ {x} : StrLess(x, y)
         IN  <<m>> \o sorted(S \ {m})

Digit == <<"0", "1", "2", "3", "4", "5", "6", "7", "8", "9">>

IsDigit(c) == \E i \in 1..10 : Digit[i] = c

DigitVal(c) == (CHOOSE i \in 1..10 : Digit[i] = c) - 1

RECURSIVE Digits(_)
Digits(n) == IF n < 10 THEN <<Digit[n + 1]>> ELSE Digits(n \div 10) \o <<Digit[(n % 10) + 1]>>

\* str(n) for an integer n.
IntStr(n) == IF n < 0 THEN <<"-">> \o Digits(0 - n) ELSE Digits(n)

RECURSIVE Horner(_, _)
Horner(s, acc) == IF s = <<>> THEN acc ELSE Horner(Tail(s), 10 * acc + DigitVal(Head(s)))

IsNumeral(s) == s # <<>> /\ \A i \in 1..Len(s) : IsDigit(s[i])

----------------------------------------------------------------------------
(* Cells and frames *)

NaN == [k |-> "nan", n |-> 0, s |-> <<>>]
Num(n) == [k |-> "num", n |-> n, s |-> <<>>]
Text(s) == [k |-> "str", n |-> 0, s |-> s]

isna(c) == c.k = "nan"

\* Series.astype(str), cell by cell.
astype_str(c, keepsNA) ==
    CASE c.k = "str" -> c
      [] c.k = "num" -> Text(IntStr(c.n))
      [] OTHER -> IF keepsNA THEN NaN ELSE Text(<<"n", "a", "n">>)

\* Series.str.strip(), cell by cell: a missing value stays missing.
str_strip(c) == IF c.k = "str" THEN Text(strip(c.s)) ELSE c

\* pd.to_numeric(..., errors="coerce"), cell by cell.
to_numeric(c) ==
    CASE c.k = "num" -> c
      [] c.k = "nan" -> NaN
      [] OTHER ->
            IF IsNumeral(c.s) THEN Num(Horner(c.s, 0))
            ELSE IF c.s # <<>> /\ Head(c.s) = "-" /\ IsNumeral(Tail(c.s))
                 THEN Num(0 - Horner(Tail(c.s), 0))
            ELSE NaN

fillna(c, v) == IF isna(c) THEN v ELSE c

\* Series.clip(lower, upper) on a numeric cell; a missing value stays missing.
clip(c, lower, upper) ==
    IF c.k # "num" THEN c
    ELSE IF c.n < lower THEN Num(lower)
    ELSE IF c.n > upper THEN Num(upper)
    ELSE c

\* Column labels: pd.read_excel yields a str for a text header cell and an
\* int for a numeric one; pd.read_csv always yields str.
Str(w) == [isstr |-> TRUE, s |-> <<w>>]
Padded(s) == [isstr |-> TRUE, s |-> s]
IntLabel(w) == [isstr |-> FALSE, s |-> <<w>>]

Frame(columns, rows) == [columns |-> columns, rows |-> rows]
NoFrame == Frame(<<>>, <<>>)

HasCol(df, name) == \E i \in 1..Len(df.columns) : df.columns[i] = name
ColIdx(df, name) == CHOOSE i \in 1..Len(df.columns) : df.columns[i] = name

\* df[name] of row r.
At(df, r, name) == df.rows[r][ColIdx(df, name)]

\* df[name] = f(row), for an existing column or a new last one.
SetCol(df, name, f(_)) ==
    IF HasCol(df, name)
    THEN Frame(df.columns,
               [r \in 1..Len(df.rows) |->
                  [df.rows[r] EXCEPT ![ColIdx(df, name)] = f(df.rows[r])]])
    ELSE Frame(Append(df.columns, name),
               [r \in 1..Len(df.rows) |-> Append(df.rows[r], f(df.rows[r]))])

\* The rows of df that satisfy keep, in order.
FilterRows(df, keep(_)) == Frame(df.columns, SelectSeq(df.rows, keep))

\* df[names]: the projection on the named columns, in that order.
Project(df, names) ==
    Frame(names,
          [r \in 1..Len(df.rows) |->
             [j \in 1..Len(names) |-> df.rows[r][ColIdx(df, names[j])]]])

----------------------------------------------------------------------------
(* Header resolution *)

VPN == Str("Vendor Part Number")
DESC == Str("Item Description")
WEIGHT == Str("Weight (g)")
PCR == Str("PCR %")
QTY == Str("Quantity")
QTY_CSV == Str("Quantity_csv")

col_map_candidates == <<
    [target |-> VPN,
     options |-> <<Str("Vendor Part Number"), Str("Vendor Part #"), Str("Vendor Part No"),
                   Str("Part Number"), Str("Part #"), Str("VendorPN"), Str("Vendor PN")>>],
    [target |-> DESC,
     options |-> <<Str("Item Description"), Str("Description"), Str("Item"),
                   Str("Item Desc")>>],
    [target |-> WEIGHT,
     options |-> <<Str("Weight (g)"), Str("Gram Weight"), Str("Gram Weight (g)"),
                   Str("Grams"), Str("Weight Grams"), Str("Weight_g"), Str("Weight")>>],
    [target |-> PCR,
     options |-> <<Str("PCR %"), Str("PCR%"), Str("PCR Content"), Str("PCR Content %"),
                   Str("% PCR"), Str("Post-Consumer %")>>] >>

pn_candidates ==
    <<Str("Vendor Part Number"), Str("Part Number"), Str("Part #"), Str("VendorPN"),
      Str("Vendor PN")>>

qty_candidates ==
    <<Str("Quantity"), Str("Qty"), Str("Quantity Purchased"), Str("Units"), Str("Count")>>

purchase_candidates == <<
    [target |-> VPN, options |-> pn_candidates],
    [target |-> QTY, options |-> qty_candidates] >>

InCols(label, columns) == \E i \in 1..Len(columns) : columns[i] = label

\* [c.strip() for c in df.columns]; strip exists on str only.
AllStr(columns) == \A i \in 1..Len(columns) : columns[i].isstr
StripCols(columns) == [i \in 1..Len(columns) |-> Padded(strip(columns[i].s))]

\* A scan in the column order of the table, the first column that is any
\* alias of the field: not what the code does.
FirstOptionByColumn(options, columns) ==
    LET hits == {i \in 1..Len(columns) : InCols(columns[i], options)}
    IN  IF hits = {} THEN 0
        ELSE LET c == CHOOSE i \in hits : \A j \in hits : i <= j
             IN  CHOOSE o \in 1..Len(options) : options[o] = columns[c]

\* for opt in options: if opt in df.columns: resolved[target] = opt; break
\* next((c for c in candidates if c in df.columns), None)
\* The position in options of the alias bound, 0 for none.
RECURSIVE ScanOptions(_, _, _)
ScanOptions(options, columns, o) ==
    IF o > Len(options) THEN 0
    ELSE IF InCols(options[o], columns) THEN o
    ELSE ScanOptions(options, columns, o + 1)

FirstOption(options, columns) == ScanOptions(options, columns, 1)

\* resolved, as the alias position per field of the table cands.
Resolve(cands, columns) ==
    [t \in 1..Len(cands) |-> FirstOption(cands[t].options, columns)]

\* df.rename(columns={resolved[k]: k for k in resolved})
Rename(cands, resolved, columns) ==
    [i \in 1..Len(columns) |->
       IF \E t \in 1..Len(cands) :
             resolved[t] # 0 /\ cands[t].options[resolved[t]] = columns[i]
       THEN cands[CHOOSE t \in 1..Len(cands) :
                     resolved[t] # 0 /\ cands[t].options[resolved[t]] = columns[i]].target
       ELSE columns[i]]

\* missing = [k for k in col_map_candidates.keys() if k not in resolved]
RECURSIVE Missing(_, _, _)
Missing(cands, resolved, t) ==
    IF t > Len(cands) THEN <<>>
    ELSE (IF resolved[t] = 0 THEN <<cands[t].target>> ELSE <<>>)
         \o Missing(cands, resolved, t + 1)

Raised(exc, missing, found) ==
    [ok |-> FALSE, exc |-> exc, missing |-> missing, found |-> found, df |-> NoFrame]
Returned(df) ==
    [ok |-> TRUE, exc |-> "", missing |-> <<>>, found |-> <<>>, df |-> df]
NotRun == [ok |-> FALSE, exc |-> "not run", missing |-> <<>>, found |-> <<>>, df |-> NoFrame]

normalize_cols(df) ==
    IF ~AllStr(df.columns) THEN Raised("AttributeError", <<>>, <<>>)
    ELSE LET columns == StripCols(df.columns)
             resolved == Resolve(col_map_candidates, columns)
             missing == Missing(col_map_candidates, resolved, 1)
         IN  IF missing # <<>> THEN Raised("ValueError", missing, columns)
             ELSE Returned(Frame(Rename(col_map_candidates, resolved, columns), df.rows))

----------------------------------------------------------------------------
(* Loaders *)

RECURSIVE SumOver(_, _, _)
SumOver(rows, f(_), r) ==
    IF r > Len(rows) THEN 0 ELSE f(rows[r]) + SumOver(rows, f, r + 1)

\* drop_duplicates(keep="last") in place of the sum: not what the code does.
GroupKeepLast(df) ==
    LET vpn == ColIdx(df, VPN)
        qty == ColIdx(df, QTY)
        keys == {df.rows[r][vpn].s : r \in {x \in 1..Len(df.rows) : ~isna(df.rows[x][vpn])}}
        order == sorted(keys)
        last(key) == CHOOSE r \in 1..Len(df.rows) :
                        /\ df.rows[r][vpn] = Text(key)
                        /\ \A x \in r + 1..Len(df.rows) : df.rows[x][vpn] # Text(key)
    IN  Frame(<<VPN, QTY>>,
              [g \in 1..Len(order) |-> <<Text(order[g]), df.rows[last(order[g])][qty]>>])

\* df.groupby("Vendor Part Number", as_index=False)["Quantity"].sum():
\* one row per key, keys sorted, rows with a missing key left out.
GroupSum(df) ==
    LET vpn == ColIdx(df, VPN)
        qty == ColIdx(df, QTY)
        keys == {df.rows[r][vpn].s : r \in {x \in 1..Len(df.rows) : ~isna(df.rows[x][vpn])}}
        order == sorted(keys)
        part(key, row) == IF row[vpn] = Text(key) THEN row[qty].n ELSE 0
    IN  Frame(<<VPN, QTY>>,
              [g \in 1..Len(order) |->
                 LET in_group(row) == part(order[g], row)
                 IN  <<Text(order[g]), Num(SumOver(df.rows, in_group, 1))>>])

load_purchase_csv(file, keepsNA) ==
    IF ~AllStr(file.columns) THEN Raised("AttributeError", <<>>, <<>>)
    ELSE LET columns == StripCols(file.columns)
             pn == FirstOption(pn_candidates, columns)
             qty == FirstOption(qty_candidates, columns)
         IN  IF pn = 0 \/ qty = 0 THEN Raised("ValueError", <<>>, columns)
             ELSE LET df0 == Frame(Rename(purchase_candidates, <<pn, qty>>, columns), file.rows)
                      vpn == ColIdx(df0, VPN)
                      strpn(row) == str_strip(astype_str(row[vpn], keepsNA))
                      df1 == SetCol(df0, VPN, strpn)
                      q == ColIdx(df0, QTY)
                      numqty(row) == fillna(to_numeric(row[q]), Num(0))
                      df2 == SetCol(df1, QTY, numqty)
                  IN  Returned(GroupSum(df2))

\* clip(lower=0) only: not what the code does.
ClipPcrLowerOnly(c) == IF c.k = "num" /\ c.n < 0 THEN Num(0) ELSE c

\* df["PCR %"].clip(lower=0, upper=100)
ClipPcr(c) == clip(c, 0, 100)

load_xlsx(file, keepsNA) ==
    LET nc == normalize_cols(file)
    IN  IF ~nc.ok THEN nc
        ELSE LET df0 == nc.df
                 vpn == ColIdx(df0, VPN)
                 desc == ColIdx(df0, DESC)
                 weight == ColIdx(df0, WEIGHT)
                 pcr == ColIdx(df0, PCR)
                 strpn(row) == str_strip(astype_str(row[vpn], keepsNA))
                 df1 == SetCol(df0, VPN, strpn)
                 strdesc(row) == str_strip(astype_str(row[desc], keepsNA))
                 df2 == SetCol(df1, DESC, strdesc)
                 numw(row) == to_numeric(row[weight])
                 df3 == SetCol(df2, WEIGHT, numw)
                 nump(row) == to_numeric(row[pcr])
                 df4 == SetCol(df3, PCR, nump)
                 present(row) == ~isna(row[vpn]) /\ ~isna(row[weight]) /\ ~isna(row[pcr])
                 df5 == FilterRows(df4, present)
                 clipped(row) == ClipPcr(row[pcr])
                 df6 == SetCol(df5, PCR, clipped)
                 zero(row) == Num(0)
             IN  Returned(SetCol(df6, QTY, zero))

----------------------------------------------------------------------------
(* Purchase merge *)

None == <<>>

\* An inner join: not what the code does.
merge_inner(left, right) ==
    LET RECURSIVE Inner(_)
        Inner(r) ==
            IF r > Len(left.rows) THEN <<>>
            ELSE LET key == left.rows[r][ColIdx(left, VPN)]
                     hit(row) == row[ColIdx(right, VPN)] = key
                     matches == SelectSeq(right.rows, hit)
                 IN  [g \in 1..Len(matches) |->
                        Append(left.rows[r], matches[g][ColIdx(right, QTY)])]
                     \o Inner(r + 1)
    IN  Frame(Append(left.columns, QTY_CSV), Inner(1))

\* The rows of left.merge(right, on="Vendor Part Number", how="left"): the
\* left rows in order, each once per right row of its key, once with a missing
\* right value when there is none.
RECURSIVE JoinRows(_, _, _)
JoinRows(left, right, r) ==
    IF r > Len(left.rows) THEN <<>>
    ELSE LET key == left.rows[r][ColIdx(left, VPN)]
             hit(row) == row[ColIdx(right, VPN)] = key
             matches == SelectSeq(right.rows, hit)
         IN  (IF matches = <<>> THEN <<Append(left.rows[r], NaN)>>
              ELSE [g \in 1..Len(matches) |->
                      Append(left.rows[r], matches[g][ColIdx(right, QTY)])])
             \o JoinRows(left, right, r + 1)

\* suffixes=("", "_csv"): the right frame's Quantity becomes Quantity_csv.
merge_left(left, right) == Frame(Append(left.columns, QTY_CSV), JoinRows(left, right, 1))

\* c.endswith("_csv"), for the labels of the model.
EndsWithCsv(label) == label = QTY_CSV

\* work.drop(columns=[c for c in work.columns if c.endswith("_csv")])
DropCsvCols(df) ==
    LET keep(label) == ~EndsWithCsv(label)
    IN  Project(df, SelectSeq(df.columns, keep))

\* Lines 162-165.
MergePurchases(base, right) ==
    LET m == merge_left(base, right)
        qty_csv == Len(base.columns) + 1
        qty == ColIdx(base, QTY)
        prefer(row) == fillna(row[qty_csv], row[qty])
    IN  DropCsvCols(SetCol(m, QTY, prefer))

\* df["Vendor Part Number"].tolist() as a set of texts.
PartNumbers(df) == {df.rows[r][ColIdx(df, VPN)].s : r \in 1..Len(df.rows)}

\* The catalog part numbers without a purchase: not what the code does.
UnmatchedReversed(catalog, right) ==
    LET missing == sorted(PartNumbers(catalog) \ PartNumbers(right))
    IN  IF missing # <<>> THEN missing ELSE None

\* Lines 168-172.
Unmatched(catalog, right) ==
    LET missing == sorted(PartNumbers(right) \ PartNumbers(catalog))
    IN  IF missing # <<>> THEN missing ELSE None

\* The frame of the previous run, where there is one: not what the code does.
WorkingCopyStale == IF work = NoFrame THEN db.df ELSE work

\* work = db.copy()
WorkingCopy == db.df

\* Lines 156-175 of one script run, given the uploader's file: the working
\* copy, the ledger load, the merge and the unmatched list; a ledger that
\* does not load stops the run.
MergeRun(file) ==
    /\ pc \in {"loaded", "merged", "stopped"} /\ db.ok
    /\ purchase_csv' = file
    /\ prev_csv' = purchase_csv
    /\ IF file.none
       THEN /\ purchases' = NotRun
            /\ work' = WorkingCopy
            /\ csv_unmatched' = None
            /\ pc' = "merged"
       ELSE /\ purchases' = load_purchase_csv(file, strKeepsNA)
            /\ IF purchases'.ok
               THEN /\ work' = MergePurchases(WorkingCopy, purchases'.df)
                    /\ csv_unmatched' = Unmatched(db.df, purchases'.df)
                    /\ pc' = "merged"
               ELSE /\ work' = WorkingCopy
                    /\ csv_unmatched' = None
                    /\ pc' = "stopped"
    /\ UNCHANGED <<strKeepsNA, xlsx, norm, db, factors, editor_out, edited, results, detail>>

----------------------------------------------------------------------------
(* Floating point.  Python's float arithmetic is binary, rounds each result *)
(* to the nearest representable value, ties to even, and keeps 53 bits of   *)
(* significand.  The model keeps MantBits bits and leaves the exponent      *)
(* unbounded; a value is m * 2^e with m = 0 or 2^(MantBits-1) <= |m| <      *)
(* 2^MantBits.                                                              *)

RECURSIVE Pow2(_)
Pow2(k) == IF k = 0 THEN 1 ELSE 2 * Pow2(k - 1)

RECURSIVE BitLen(_)
BitLen(n) == IF n = 0 THEN 0 ELSE 1 + BitLen(n \div 2)

Abs(n) == IF n < 0 THEN 0 - n ELSE n

Fl(m, e) == [m |-> m, e |-> e]
FlZero == Fl(0, 0)

\* n \div 2^k rounded to nearest, ties to even (n >= 0, k >= 1).
RoundShift(n, k) ==
    LET q == n \div Pow2(k)
        r == n % Pow2(k)
        half == Pow2(k - 1)
    IN  IF r > half \/ (r = half /\ q % 2 = 1) THEN q + 1 ELSE q

\* The float nearest to sign * n * 2^e (n >= 0).
FlNorm(sign, n, e) ==
    IF n = 0 THEN FlZero
    ELSE LET b == BitLen(n)
         IN  IF b <= MantBits
             THEN Fl(sign * n * Pow2(MantBits - b), e - (MantBits - b))
             ELSE LET k == b - MantBits
                      q == RoundShift(n, k)
                  IN  IF q = Pow2(MantBits)
                      THEN Fl(sign * Pow2(MantBits - 1), e + k + 1)
                      ELSE Fl(sign * q, e + k)

\* The float nearest to sign * (q + r/d) * 2^e, by long division (0 <= r < d):
\* quotient bits are produced until two guard bits are in hand, the rest of
\* the quotient is folded into a sticky bit.
RECURSIVE RatBits(_, _, _, _, _)
RatBits(sign, q, r, d, e) ==
    IF q = 0 /\ r = 0 THEN FlZero
    ELSE IF q >= Pow2(MantBits + 1)
    THEN FlNorm(sign, 2 * q + (IF r = 0 THEN 0 ELSE 1), e - 1)
    ELSE RatBits(sign, 2 * q + ((2 * r) \div d), (2 * r) % d, d, e - 1)

\* float(n) for an integer n.
from_int(n) == FlNorm(IF n < 0 THEN 0 - 1 ELSE 1, Abs(n), 0)

\* The float a decimal literal n/d (n >= 0) is read as.
FlDec(n, d) == RatBits(1, n \div d, n % d, d, 0)

FlSign(a) == IF a.m < 0 THEN 0 - 1 ELSE 1

fl_neg(a) == Fl(0 - a.m, a.e)
fl_abs(a) == Fl(Abs(a.m), a.e)

\* a * b
fl_mul(a, b) == FlNorm(FlSign(a) * FlSign(b), Abs(a.m) * Abs(b.m), a.e + b.e)

\* a / b, b nonzero
fl_div(a, b) ==
    RatBits(FlSign(a) * FlSign(b), Abs(a.m) \div Abs(b.m), Abs(a.m) % Abs(b.m),
            Abs(b.m), a.e - b.e)

\* a + b.  An addend more than MantBits + 2 binary places below the other is
\* under a quarter of its last place and leaves it unchanged.
fl_add(a, b) ==
    IF a.m = 0 THEN b
    ELSE IF b.m = 0 THEN a
    ELSE LET hi == IF a.e >= b.e THEN a ELSE b
             lo == IF a.e >= b.e THEN b ELSE a
             d == hi.e - lo.e
         IN  IF d > MantBits + 2 THEN hi
             ELSE LET n == hi.m * Pow2(d) + lo.m
                  IN  FlNorm(IF n < 0 THEN 0 - 1 ELSE 1, Abs(n), lo.e)

\* a - b
fl_sub(a, b) == fl_add(a, fl_neg(b))

\* a <= b, a >= 0: the sign of a difference survives its rounding.
fl_le(a, b) == fl_sub(a, b).m <= 0
fl_ge0(a) == a.m >= 0

\* Series.sum(): the elements added up in order.
RECURSIVE FlSum(_, _, _)
FlSum(xs, i, acc) == IF i > Len(xs) THEN acc ELSE FlSum(xs, i + 1, fl_add(acc, xs[i]))

fl_sum(xs) == FlSum(xs, 1, FlZero)

----------------------------------------------------------------------------
(* Selection, editor and results *)

lower(c) ==
    CASE c = "A" -> "a"
      [] c = "B" -> "b"
      [] c = "Z" -> "z"
      [] OTHER -> c

\* str.lower()
str_lower(s) == [i \in 1..Len(s) |-> lower(s[i])]

\* Series.str.contains(s, na=False) for a pattern of plain characters.
contains(c, s) ==
    /\ c.k = "str"
    /\ \E i \in 1..(Len(c.s) - Len(s) + 1) : SubSeq(str_lower(c.s), i, i + Len(s) - 1) = s

\* Lines 192-198.
View(df, search) ==
    IF strip(search) # <<>>
    THEN LET s == str_lower(strip(search))
             vpn == ColIdx(df, VPN)
             desc == ColIdx(df, DESC)
             hit(row) == contains(row[vpn], s) \/ contains(row[desc], s)
         IN  FilterRows(df, hit)
    ELSE df

\* DataFrame.sort_values("Vendor Part Number"), rows of one part number in
\* their order.
SortByPn(df) ==
    LET vpn == ColIdx(df, VPN)
        order == sorted(PartNumbers(df))
        RECURSIVE Groups(_)
        Groups(g) ==
            IF g > Len(order) THEN <<>>
            ELSE LET mine(row) == row[vpn].s = order[g]
                 IN  SelectSeq(df.rows, mine) \o Groups(g + 1)
    IN  Frame(df.columns, Groups(1))

EditorColumns == <<VPN, DESC, WEIGHT, PCR, QTY>>

\* Line 209 and the frame handed to st.data_editor.
CalcFrame(df, selected) ==
    LET vpn == ColIdx(df, VPN)
        chosen(row) == row[vpn].s \in selected
    IN  Project(SortByPn(FilterRows(df, chosen)), EditorColumns)

NoEdit == [row |-> 0, col |-> QTY, value |-> NaN]

\* What st.data_editor returns: the frame, one cell retyped or none.
Edited(df, edit) ==
    IF edit.row = 0 THEN df
    ELSE Frame(df.columns,
               [df.rows EXCEPT ![edit.row][ColIdx(df, edit.col)] = edit.value])

\* .clip(0, 100) of line 228
ReclampPcr(c) == clip(c, 0, 100)

\* Lines 225-228.
Normalise(df) ==
    LET qty == ColIdx(df, QTY)
        weight == ColIdx(df, WEIGHT)
        pcr == ColIdx(df, PCR)
        numq(row) == fillna(to_numeric(row[qty]), Num(0))
        numw(row) == fillna(to_numeric(row[weight]), Num(0))
        nump(row) == ReclampPcr(fillna(to_numeric(row[pcr]), Num(0)))
    IN  SetCol(SetCol(SetCol(df, QTY, numq), WEIGHT, numw), PCR, nump)

GRAMS_PER_LB == FlDec(45359237, 100000)
KG_PER_LB == FlDec(45359237, 100000000)
Hundred == from_int(100)
Thousand == from_int(1000)

\* The columns of the normalised frame as floats.
WeightOf(df, r) == from_int(At(df, r, WEIGHT).n)
QuantityOf(df, r) == from_int(At(df, r, QTY).n)
PcrOf(df, r) == from_int(At(df, r, PCR).n)

\* Lines 230-248.
Results(df, f) ==
    LET rows == 1..Len(df.rows)
        total_grams == fl_sum([r \in rows |-> fl_mul(WeightOf(df, r), QuantityOf(df, r))])
        total_lbs == fl_div(total_grams, GRAMS_PER_LB)
        total_kg == fl_mul(total_lbs, KG_PER_LB)
        pcr_grams == fl_sum([r \in rows |->
                                fl_mul(fl_mul(WeightOf(df, r), QuantityOf(df, r)),
                                       fl_div(PcrOf(df, r), Hundred))])
        pcr_lbs == fl_div(pcr_grams, GRAMS_PER_LB)
        pcr_kg == fl_mul(pcr_lbs, KG_PER_LB)
        avoided_kg == fl_mul(pcr_kg, f.pet_pcr_benefit)
        avoided_metric_tons == fl_div(avoided_kg, Thousand)
        baseline_pcr_kg == fl_mul(total_kg, fl_div(f.current_pcr_pct, Hundred))
        baseline_avoided_metric_tons ==
            fl_div(fl_mul(baseline_pcr_kg, f.pet_pcr_benefit), Thousand)
    IN  [total_lbs |-> total_lbs,
         pcr_lbs |-> pcr_lbs,
         avoided_metric_tons |-> avoided_metric_tons,
         advantage_metric_tons |-> fl_sub(avoided_metric_tons, baseline_avoided_metric_tons)]

\* The PCR % taken as a fraction already: not what the code does.
PcrWeightLbNoPercent(total_weight_lb, pcr) == fl_mul(total_weight_lb, pcr)

\* detail["Total Weight (lb)"] * (detail["PCR %"] / 100.0)
PcrWeightLb(total_weight_lb, pcr) == fl_mul(total_weight_lb, fl_div(pcr, Hundred))

\* Lines 264-268, row by row.
Detail(df, f) ==
    [r \in 1..Len(df.rows) |->
       LET total_weight_lb ==
               fl_div(fl_mul(WeightOf(df, r), QuantityOf(df, r)), GRAMS_PER_LB)
           pcr_weight_lb == PcrWeightLb(total_weight_lb, PcrOf(df, r))
           pcr_weight_kg == fl_mul(pcr_weight_lb, KG_PER_LB)
       IN  [vpn |-> At(df, r, VPN),
            total_weight_lb |-> total_weight_lb,
            pcr_weight_lb |-> pcr_weight_lb,
            avoided |-> fl_div(fl_mul(pcr_weight_kg, f.pet_pcr_benefit), Thousand)]]

\* Lines 190-220 of one script run, given the search text, the multiselect's
\* choice among the part numbers in view and the editor's edit; no choice
\* stops the run.
SelectEdit(search, selected, edit) ==
    /\ pc = "merged"
    /\ selected \subseteq PartNumbers(View(work, search))
    /\ IF selected = {}
       THEN /\ edit = NoEdit
            /\ editor_out' = NoFrame
            /\ pc' = "stopped"
       ELSE /\ edit.row <= Len(CalcFrame(work, selected).rows)
            /\ editor_out' = Edited(CalcFrame(work, selected), edit)
            /\ pc' = "edited"
    /\ UNCHANGED <<strKeepsNA, xlsx, norm, db, purchase_csv, prev_csv, purchases, work,
                   csv_unmatched, factors, edited, results, detail>>

\* Lines 222-268 of the run.
Calculate ==
    /\ pc = "edited"
    /\ edited' = Normalise(editor_out)
    /\ results' = Results(edited', factors)
    /\ detail' = Detail(edited', factors)
    /\ pc' = "calculated"
    /\ UNCHANGED <<strKeepsNA, xlsx, norm, db, purchase_csv, prev_csv, purchases, work,
                   csv_unmatched, factors, editor_out>>

----------------------------------------------------------------------------
(* Inputs *)

Range(s) == {s[i] : i \in 1..Len(s)}

\* The sequences of at most n pairwise distinct elements of S.
RECURSIVE InjSeqs(_, _)
InjSeqs(S, n) ==
    IF n = 0 THEN {<<>>}
    ELSE LET prev == InjSeqs(S, n - 1)
         IN  prev \cup UNION {{Append(s, x) : x \in S \ Range(s)} :
                               s \in {p \in prev : Len(p) = n - 1}}

\* The sequences of at most n elements of S.
RECURSIVE SeqsUpTo(_, _)
SeqsUpTo(S, n) ==
    IF n = 0 THEN {<<>>}
    ELSE LET prev == SeqsUpTo(S, n - 1)
         IN  prev \cup {Append(s, x) : s \in {p \in prev : Len(p) = n - 1}, x \in S}

NoFile == [columns |-> <<>>, rows |-> <<>>, none |-> TRUE]
File(columns, rows) == [columns |-> columns, rows |-> rows, none |-> FALSE]

CatalogLabels ==
    {Str("Part #"), Padded(<<"Vendor PN", " ">>), Str("Item"), Padded(<<" ", "Weight">>),
     Str("Weight (g)"), Str("PCR%"), Str("Notes"), IntLabel("2024")}

LedgerLabels ==
    {Str("Part Number"), Padded(<<"Vendor PN", " ">>), Padded(<<" ", "Qty">>), Str("Units"),
     Str("Quantity"), Str("Memo")}

\* One row whose cell in column i is the number i.
Numbered(columns) == <<[i \in 1..Len(columns) |-> Num(i)]>>

Idle ==
    /\ prev_csv = NoFile
    /\ norm = NotRun /\ db = NotRun /\ purchases = NotRun
    /\ work = NoFrame /\ csv_unmatched = <<>>
    /\ factors = [pet_pcr_benefit |-> FlZero, current_pcr_pct |-> FlZero]
    /\ editor_out = NoFrame /\ edited = NoFrame /\ results = <<>> /\ detail = <<>>

----------------------------------------------------------------------------
(* Header resolution on its own: normalize_cols on a catalog's header row,  *)
(* load_purchase_csv on a ledger with one numbered row.                     *)

\* No missing text cell is drawn here, so the pandas build makes no difference.
InitSchema ==
    /\ pc = "start"
    /\ strKeepsNA = FALSE
    /\ \/ /\ xlsx \in {File(h, Numbered(h)) : h \in InjSeqs(CatalogLabels, MaxCols)}
          /\ purchase_csv = NoFile
       \/ /\ xlsx = NoFile
          /\ purchase_csv \in {File(h, Numbered(h)) : h \in InjSeqs(LedgerLabels, MaxCols)}
    /\ Idle

NormalizeCols ==
    /\ pc = "start" /\ ~xlsx.none
    /\ norm' = normalize_cols(xlsx)
    /\ pc' = "normalized"
    /\ UNCHANGED <<strKeepsNA, xlsx, db, purchase_csv, prev_csv, purchases, work,
                   csv_unmatched, factors, editor_out, edited, results, detail>>

LoadPurchaseCsv ==
    /\ pc = "start" /\ ~purchase_csv.none
    /\ purchases' = load_purchase_csv(purchase_csv, strKeepsNA)
    /\ pc' = "purchases loaded"
    /\ UNCHANGED <<strKeepsNA, xlsx, norm, db, purchase_csv, prev_csv, work,
                   csv_unmatched, factors, editor_out, edited, results, detail>>

NextSchema == NormalizeCols \/ LoadPurchaseCsv

SpecSchema == InitSchema /\ [][NextSchema]_vars

\* The alias of a field that comes earliest in its list among those present
\* in the trimmed header row, 0 when none is.
Earliest(options, columns) ==
    IF \E o \in 1..Len(options) : InCols(options[o], columns)
    THEN CHOOSE o \in 1..Len(options) :
            /\ InCols(options[o], columns)
            /\ \A o2 \in 1..(o - 1) : ~InCols(options[o2], columns)
    ELSE 0

C6_Witness_Catalog ==
    /\ pc = "normalized" /\ norm.ok
    /\ \E i, j \in 1..Len(xlsx.columns) :
          /\ i < j
          /\ xlsx.columns[i] = Padded(<<" ", "Weight">>)
          /\ xlsx.columns[j] = Str("Weight (g)")
          /\ norm.df.columns[j] = WEIGHT
          /\ norm.df.columns[i] = Str("Weight")

C6_Witness_Ledger ==
    /\ pc = "purchases loaded" /\ purchases.ok
    /\ \E i, j \in 1..Len(purchase_csv.columns) :
          /\ i < j
          /\ purchase_csv.columns[i] = Str("Units")
          /\ purchase_csv.columns[j] = Padded(<<" ", "Qty">>)
          /\ purchases.df.rows[1][2] = Num(j)

C7_FailsIffFieldMissing ==
    pc = "normalized" =>
        LET unresolved == {t \in 1..Len(col_map_candidates) :
                              \A i \in 1..Len(xlsx.columns) :
                                 ~InCols(Padded(strip(xlsx.columns[i].s)),
                                         col_map_candidates[t].options)}
        IN  /\ ~norm.ok <=> unresolved # {}
            /\ ~norm.ok =>
                  /\ Range(norm.missing) = {col_map_candidates[t].target : t \in unresolved}
                  /\ norm.found = [i \in 1..Len(xlsx.columns) |->
                                      Padded(strip(xlsx.columns[i].s))]
                  /\ norm.df = NoFrame

----------------------------------------------------------------------------
(* load_xlsx on its own: catalogs of at most MaxRows rows under resolving    *)
(* headers, each cell present, missing, numeric or not.                     *)

CatalogHeader == <<Str("Part #"), Str("Item"), Padded(<<" ", "Weight">>), Str("PCR%")>>

CatalogPnCells == {Text(<<"A">>), Text(<<" ", "A">>), NaN}
CatalogWeightCells == {Num(50), Text(<<"x">>), NaN}
CatalogPcrCells == {Num(40), Num(150), Text(<<"x">>)}

CatalogRows ==
    {<<p, Text(<<"d", " ">>), w, c>> :
        p \in CatalogPnCells, w \in CatalogWeightCells, c \in CatalogPcrCells}
    \cup {<<Text(<<"B">>), NaN, Text(<<"3", "3">>), Num(0 - 10)>>,
          <<Text(<<"B">>), Text(<<"d">>), Num(0 - 7), NaN>>,
          <<Text(<<"B", " ">>), Text(<<"d">>), Num(20), Text(<<"1", "0", "0">>)>>}

InitLoad ==
    /\ pc = "start"
    /\ strKeepsNA \in BOOLEAN
    /\ xlsx \in {File(CatalogHeader, rows) : rows \in SeqsUpTo(CatalogRows, MaxRows)}
    /\ purchase_csv = NoFile
    /\ Idle

\* db = load_xlsx(...) of the sidebar block; a failed load stops the run.
LoadXlsx ==
    /\ pc = "start" /\ ~xlsx.none
    /\ db' = load_xlsx(xlsx, strKeepsNA)
    /\ pc' = IF db'.ok THEN "loaded" ELSE "stopped"
    /\ UNCHANGED <<strKeepsNA, xlsx, norm, purchase_csv, prev_csv, purchases, work,
                   csv_unmatched, factors, editor_out, edited, results, detail>>

NextLoad == LoadXlsx

SpecLoad == InitLoad /\ [][NextLoad]_vars

\* What a cell holds, read off the input table.
HasNumber(c) == c.k = "num" \/ (c.k = "str" /\ to_numeric(c).k = "num")
RowComplete(row) == row[1].k # "nan" /\ HasNumber(row[3]) /\ HasNumber(row[4])

\* C1: the loaded record set holds exactly the input rows whose part number,
\* weight and PCR% are all present (weight and PCR% numeric), in order, and
\* the load does not fail.
C1_ExactlyCompleteRows ==
    pc # "start" =>
        /\ db.ok
        /\ LET kept == SelectSeq(xlsx.rows, RowComplete)
           IN  /\ Len(db.df.rows) = Len(kept)
               /\ \A r \in 1..Len(kept) :
                     /\ At(db.df, r, VPN) = Text(strip(kept[r][1].s))
                     /\ At(db.df, r, WEIGHT) = to_numeric(kept[r][3])

----------------------------------------------------------------------------
(* load_purchase_csv on its own: ledgers of at most MaxRows rows under       *)
(* resolving headers; every row has a part number.                          *)

LedgerHeader == <<Padded(<<" ", "Qty">>), Str("Part Number")>>

LedgerPnCells == {Text(<<"A">>), Text(<<" ", "A">>), Text(<<"B", " ">>), Text(<<"Z">>)}
LedgerQtyCells ==
    {Num(100), Num(250), Num(0 - 5), NaN, Text(<<"x">>), Text(<<"4", "0">>)}

LedgerRows == {<<q, p>> : q \in LedgerQtyCells, p \in LedgerPnCells}

InitPurchase ==
    /\ pc = "start"
    /\ strKeepsNA = FALSE
    /\ xlsx = NoFile
    /\ purchase_csv \in {File(LedgerHeader, rows) : rows \in SeqsUpTo(LedgerRows, MaxRows)}
    /\ Idle

NextPurchase == LoadPurchaseCsv

SpecPurchase == InitPurchase /\ [][NextPurchase]_vars

\* The quantity a ledger cell counts for.
Counted(c) == IF HasNumber(c) THEN to_numeric(c).n ELSE 0

\* The sum of Counted over the ledger rows from r on whose trimmed part number is key.
RECURSIVE LedgerTotal(_, _, _)
LedgerTotal(rows, key, r) ==
    IF r > Len(rows) THEN 0
    ELSE (IF strip(rows[r][2].s) = key THEN Counted(rows[r][1]) ELSE 0)
         + LedgerTotal(rows, key, r + 1)

C5_Witness_Sum ==
    /\ pc = "purchases loaded" /\ purchases.ok
    /\ purchase_csv.rows = << <<Num(100), Text(<<"A">>)>>, <<Num(250), Text(<<" ", "A">>)>> >>
    /\ purchases.df.rows = << <<Text(<<"A">>), Num(350)>> >>

C5_Witness_ZeroFill ==
    /\ pc = "purchases loaded" /\ purchases.ok
    /\ purchase_csv.rows = << <<Text(<<"x">>), Text(<<"Z">>)>>, <<Num(100), Text(<<"A">>)>> >>
    /\ purchases.df.rows = << <<Text(<<"A">>), Num(100)>>, <<Text(<<"Z">>), Num(0)>> >>

----------------------------------------------------------------------------
(* The merge over reruns: a loaded catalog of at most MaxRows rows, part     *)
(* numbers possibly shared, and in each run no ledger, a ledger of at most   *)
(* MaxRows rows, or a ledger without a quantity column.  The order of a      *)
(* ledger's rows is varied in SpecPurchase; here a ledger is taken in one    *)
(* order of its rows.                                                       *)

MergeCatalogRows ==
    {<<Text(<<"A">>), Text(<<"d">>), Num(50), Num(40)>>,
     <<Text(<<"B">>), Text(<<"e">>), Num(33), Num(25)>>}

MergeLedgerRows ==
    <<<<Num(100), Text(<<"A">>)>>, <<Num(250), Text(<<" ", "A">>)>>, <<Num(7), Text(<<"Z">>)>>>>

MergeLedgers ==
    {File(LedgerHeader, [i \in 1..Len(s) |-> MergeLedgerRows[s[i]]]) :
        s \in {x \in SeqsUpTo(1..Len(MergeLedgerRows), MaxRows) :
                  \A i \in 1..Len(x) : \A j \in i..Len(x) : x[i] <= x[j]}}
    \cup {NoFile, File(<<Str("Memo"), Str("Part Number")>>, <<>>)}

InitMerge ==
    /\ pc = "loaded"
    /\ strKeepsNA = FALSE
    /\ xlsx \in {File(CatalogHeader, rows) : rows \in SeqsUpTo(MergeCatalogRows, MaxRows)}
    /\ purchase_csv = NoFile
    /\ prev_csv = NoFile
    /\ norm = NotRun /\ purchases = NotRun
    /\ db = load_xlsx(xlsx, strKeepsNA)
    /\ work = NoFrame /\ csv_unmatched = None
    /\ factors = [pet_pcr_benefit |-> FlZero, current_pcr_pct |-> FlZero]
    /\ editor_out = NoFrame /\ edited = NoFrame /\ results = <<>> /\ detail = <<>>

NextMerge == \E file \in MergeLedgers : MergeRun(file)

SpecMerge == InitMerge /\ [][NextMerge]_vars

LedgerKeys(file) == {strip(file.rows[r][2].s) : r \in 1..Len(file.rows)}

\* C3: after any sequence of merge runs the quantities are those of a single
\* merge of the catalog with the ledger of the last run: the ledger's total
\* for a part number it contains, the catalog default 0 otherwise.
C3_LastLedgerOnly ==
    pc = "merged" =>
        /\ Len(work.rows) = Len(db.df.rows)
        /\ \A r \in 1..Len(work.rows) :
              LET key == At(db.df, r, VPN).s
              IN  At(work, r, QTY) =
                     IF ~purchase_csv.none /\ key \in LedgerKeys(purchase_csv)
                     THEN Num(LedgerTotal(purchase_csv.rows, key, 1))
                     ELSE Num(0)

\* A run with a ledger that gave part A a quantity is followed by a run with
\* a ledger without A (A is back at 0), by a run with another total for A, or
\* by a run with the same ledger.
C3_Witness_Dropped ==
    /\ pc = "merged" /\ ~prev_csv.none /\ ~purchase_csv.none
    /\ \E r \in 1..Len(work.rows) :
          /\ At(work, r, VPN) = Text(<<"A">>)
          /\ <<"A">> \in LedgerKeys(prev_csv)
          /\ <<"A">> \notin LedgerKeys(purchase_csv)
          /\ purchase_csv.rows # <<>>
          /\ At(work, r, QTY) = Num(0)

C3_Witness_Replaced ==
    /\ pc = "merged" /\ ~prev_csv.none /\ ~purchase_csv.none
    /\ \E r \in 1..Len(work.rows) :
          /\ At(work, r, VPN) = Text(<<"A">>)
          /\ LedgerTotal(prev_csv.rows, <<"A">>, 1) = 350
          /\ LedgerTotal(purchase_csv.rows, <<"A">>, 1) = 100
          /\ At(work, r, QTY) = Num(100)

C3_Witness_Twice ==
    /\ pc = "merged" /\ ~prev_csv.none /\ prev_csv = purchase_csv
    /\ \E r \in 1..Len(work.rows) : At(work, r, QTY) = Num(350)

C3_Witness == C3_Witness_Dropped \/ C3_Witness_Replaced \/ C3_Witness_Twice

\* C4: the merge returns the catalog's rows, one for one and in order, with
\* part number, description, weight and PCR% unchanged; a row's quantity is
\* the purchase quantity of its part number when the purchase set has it and
\* the catalog quantity otherwise; without a ledger the merged set is the
\* catalog set.
C4_LeftJoinKeepsCatalog ==
    pc = "merged" =>
        /\ work.columns = db.df.columns
        /\ Len(work.rows) = Len(db.df.rows)
        /\ \A r \in 1..Len(work.rows) :
              /\ \A name \in {VPN, DESC, WEIGHT, PCR} :
                    At(work, r, name) = At(db.df, r, name)
              /\ LET hits == {g \in 1..Len(purchases.df.rows) :
                                 purchases.df.rows[g][1] = At(db.df, r, VPN)}
                 IN  IF purchases.ok /\ hits # {}
                     THEN \A g \in hits : At(work, r, QTY) = purchases.df.rows[g][2]
                     ELSE At(work, r, QTY) = At(db.df, r, QTY)
        /\ purchase_csv.none => work = db.df

\* Two catalog rows share part number A and both carry the purchase quantity;
\* a part number without a purchase keeps 0 next to one that has a purchase.
C4_Witness_Shared ==
    /\ pc = "merged" /\ purchases.ok
    /\ \E r1, r2 \in 1..Len(work.rows) :
          /\ r1 # r2
          /\ At(work, r1, VPN) = Text(<<"A">>) /\ At(work, r1, QTY) = Num(350)
          /\ At(work, r2, VPN) = Text(<<"A">>) /\ At(work, r2, QTY) = Num(350)

C4_Witness_Unmatched ==
    /\ pc = "merged" /\ purchases.ok
    /\ \E r1, r2 \in 1..Len(work.rows) :
          /\ At(work, r1, VPN) = Text(<<"A">>) /\ At(work, r1, QTY) = Num(100)
          /\ At(work, r2, VPN) = Text(<<"B">>) /\ At(work, r2, QTY) = Num(0)

C4_Witness == C4_Witness_Shared \/ C4_Witness_Unmatched

----------------------------------------------------------------------------
(* One script run, stage by stage: catalog load, merge, selection and edit, *)
(* results.                                                                 *)

\* Catalog rows: PCR% in range, above 100, below 0.
RunCatalogRows ==
    {<<Text(<<"A">>), Text(<<"d">>), Num(50), Num(40)>>,
     <<Text(<<"B">>), Text(<<"e">>), Num(33), Num(150)>>,
     <<Text(<<"A">>), Text(<<"d">>), Num(7), Num(0 - 10)>>}

RunLedgers ==
    {NoFile,
     File(LedgerHeader, << <<Num(1000), Text(<<"A">>)>> >>),
     File(LedgerHeader, << <<Num(0 - 5), Text(<<"A">>)>>, <<Num(3), Text(<<"B">>)>> >>)}

Searches == {<<>>, <<" ", "B">>}

\* The editor takes any value for Weight (g) and PCR %, and none below 0 for
\* Quantity (min_value=0).
Edits ==
    {NoEdit}
    \cup {[row |-> r, col |-> c, value |-> v] :
            r \in 1..MaxRows, c \in {WEIGHT, PCR},
            v \in {NaN, Text(<<"x">>), Num(0 - 3), Num(150)}}
    \cup {[row |-> r, col |-> QTY, value |-> v] : r \in 1..MaxRows, v \in {NaN, Num(150)}}

Benefits == {FlZero, FlDec(170, 100)}

Init ==
    /\ pc = "start"
    /\ strKeepsNA = FALSE
    /\ xlsx \in {File(CatalogHeader, rows) : rows \in SeqsUpTo(RunCatalogRows, MaxRows)}
    /\ purchase_csv = NoFile
    /\ prev_csv = NoFile
    /\ norm = NotRun /\ db = NotRun /\ purchases = NotRun
    /\ work = NoFrame /\ csv_unmatched = None
    /\ factors \in {[pet_pcr_benefit |-> b, current_pcr_pct |-> from_int(30)] : b \in Benefits}
    /\ editor_out = NoFrame /\ edited = NoFrame /\ results = <<>> /\ detail = <<>>

Next ==
    \/ LoadXlsx
    \/ \E file \in RunLedgers : pc = "loaded" /\ MergeRun(file)
    \/ \E search \in Searches : \E selected \in SUBSET {<<"A">>, <<"B">>} :
          \E edit \in Edits : SelectEdit(search, selected, edit)
    \/ Calculate

Spec == Init /\ [][Next]_vars

InRange(c) == c.k = "num" /\ 0 <= c.n /\ c.n <= 100

\* C2: in the results block every quantity and weight that enters a formula
\* is >= 0, and with a conversion benefit >= 0 every per-record and aggregate
\* weight and avoided-CO2 metric is >= 0.
C2_MetricsNonNegative ==
    pc = "calculated" =>
        /\ \A r \in 1..Len(edited.rows) :
              At(edited, r, QTY).n >= 0 /\ At(edited, r, WEIGHT).n >= 0
        /\ fl_ge0(factors.pet_pcr_benefit) =>
              /\ fl_ge0(results.total_lbs) /\ fl_ge0(results.pcr_lbs)
              /\ fl_ge0(results.avoided_metric_tons)
              /\ \A r \in 1..Len(detail) :
                    /\ fl_ge0(detail[r].total_weight_lb)
                    /\ fl_ge0(detail[r].pcr_weight_lb)
                    /\ fl_ge0(detail[r].avoided)

\* C8: PCR% is a number in [0,100] in every record load_xlsx returns and in
\* every record of the edited set after the coercions of the results block.
C8_PcrInRange ==
    /\ db.ok => \A r \in 1..Len(db.df.rows) : InRange(At(db.df, r, PCR))
    /\ pc = "calculated" => \A r \in 1..Len(edited.rows) : InRange(At(edited, r, PCR))

\* A catalog PCR% above 100 and one below 0 were loaded, and the editor
\* returned a PCR% that is above 100, below 0 or no number.
C8_Witness ==
    /\ pc = "calculated" /\ db.ok
    /\ \E r \in 1..Len(xlsx.rows) : xlsx.rows[r][4] = Num(150)
    /\ \E r \in 1..Len(xlsx.rows) : xlsx.rows[r][4] = Num(0 - 10)
    /\ \E r \in 1..Len(editor_out.rows) :
          At(editor_out, r, PCR) \in {Num(150), Num(0 - 3), Text(<<"x">>), NaN}

----------------------------------------------------------------------------
(* The results block on its own: editor frames of at most MaxRows rows.     *)

CalcRows ==
    {<<Text(<<"A">>), Text(<<"d">>), Num(w), Num(p), Num(q)>> :
        w \in {50, 33, 7}, p \in {40, 25}, q \in {1000, 3, 0 - 5}}

InitCalc ==
    /\ pc = "edited"
    /\ strKeepsNA = FALSE
    /\ xlsx = NoFile /\ purchase_csv = NoFile /\ prev_csv = NoFile
    /\ norm = NotRun /\ db = NotRun /\ purchases = NotRun
    /\ work = NoFrame /\ csv_unmatched = None
    /\ factors \in {[pet_pcr_benefit |-> b, current_pcr_pct |-> from_int(30)] : b \in Benefits}
    /\ editor_out \in {Frame(EditorColumns, rows) : rows \in SeqsUpTo(CalcRows, MaxRows) \ {<<>>}}
    /\ edited = NoFrame /\ results = <<>> /\ detail = <<>>

NextCalc == Calculate

SpecCalc == InitCalc /\ [][NextCalc]_vars

DetailColumn(name) ==
    [r \in 1..Len(detail) |->
       CASE name = "total_lbs" -> detail[r].total_weight_lb
         [] name = "pcr_lbs" -> detail[r].pcr_weight_lb
         [] OTHER -> detail[r].avoided]

Aggregate(name) ==
    CASE name = "total_lbs" -> results.total_lbs
      [] name = "pcr_lbs" -> results.pcr_lbs
      [] OTHER -> results.avoided_metric_tons

Metrics == {"total_lbs", "pcr_lbs", "avoided_metric_tons"}

RoundingSteps(n) == 2 * n + 12

====
